---- MODULE Spec2Model ----
(***************************************************************************)
(* Model of the SR P3 MCP server (tomellen/mcpsrtest):                     *)
(*   src/src/api-client.ts          RateLimiter, SRApiClient               *)
(*   src/src/tools/search-playlist.ts  parseDateInput, parseSong,          *)
(*                                  searchPlaylistByDate, getCurrentPlaylist*)
(*   src/unnamed/part_000           the CallToolRequestSchema handler      *)
(*                                                                         *)
(* Time.  Date.now() is modelled by the variable now, in milliseconds      *)
(* since the model's origin, which is 23:59:00.000 UTC of day 0.  A Date   *)
(* is a record [valid, day, ms]: the UTC day number relative to the origin *)
(* day and the millisecond of that day (a single millisecond count of a    *)
(* 90 day span does not fit the checker's integers).                       *)
(***************************************************************************)
EXTENDS Integers, Sequences, FiniteSets, TLC

VARIABLES
    now,        \* the last reading of the clock (Date.now())
    requests,   \* RateLimiter.state.requests: the retained admission instants
    admitted,   \* history: the instants, not older than one window, at which
                \* allowRequest() returned true
    lim,        \* history: the last call made on the limiter, and the last
                \* wait time given after a refusal
    inv,        \* the tool invocations in flight, per slot
    res         \* the date resolver's last call: its input, clock and outcome

vars == <<now, requests, admitted, lim, inv, res>>

----------------------------------------------------------------------------
(* Program constants                                                       *)

P3_CHANNEL_ID == 565
API_TIMEOUT_MS == 10000
RATE_LIMIT_WINDOW_MS == 60000
RATE_LIMIT_MAX_REQUESTS == 10

(* Bounds of the model                                                     *)

\* The clock runs over the window boundaries 0 .. MaxWindows.
MaxWindows == 2

----------------------------------------------------------------------------
(* Helpers                                                                 *)

Max(a, b) == IF a >= b THEN a ELSE b

Range(s) == {s[i] : i \in DOMAIN s}

SeqMin(s) == CHOOSE m \in Range(s) : \A x \in Range(s) : m <= x

CeilDiv_RoundsDown(a, b) == a \div b

\* Math.ceil(a / b) for b > 0 (\div rounds down).
CeilDiv(a, b) == -((-a) \div b)

\* The clock readings the model draws from: around every window boundary,
\* the boundary itself, one and a half seconds after it, and the last
\* millisecond before the next one.
WindowOffsets == {0, 1500, RATE_LIMIT_WINDOW_MS - 1}

Instants ==
    {k * RATE_LIMIT_WINDOW_MS + o : k \in 0..MaxWindows, o \in WindowOffsets}

\* A reading of the clock not earlier than the previous one.
ClockReads(t) == {u \in Instants : u >= t}

----------------------------------------------------------------------------
(* RateLimiter (api-client.ts)                                             *)

Purge_Inclusive(reqs, t) ==
    SelectSeq(reqs, LAMBDA timestamp : t - timestamp <= RATE_LIMIT_WINDOW_MS)

\* allowRequest, the filter: the timestamps still inside the window at t.
Purge(reqs, t) ==
    SelectSeq(reqs, LAMBDA timestamp : t - timestamp < RATE_LIMIT_WINDOW_MS)

AtLimit_OffByOne(reqs) == Len(reqs) > RATE_LIMIT_MAX_REQUESTS

\* allowRequest, the test made on the purged sequence.
AtLimit(reqs) == Len(reqs) >= RATE_LIMIT_MAX_REQUESTS

\* allowRequest's return value when called at clock reading t.
AllowRequestResult(reqs, t) == ~AtLimit(Purge(reqs, t))

AllowRequestState_RecordsRefusal(reqs, t) == Append(Purge(reqs, t), t)

AllowRequestState_NoRecord(reqs, t) == Purge(reqs, t)

\* state.requests after allowRequest at clock reading t.
AllowRequestState(reqs, t) ==
    IF AtLimit(Purge(reqs, t)) THEN Purge(reqs, t)
    ELSE Append(Purge(reqs, t), t)

\* getWaitTime's return value when called at clock reading t.
GetWaitTime(reqs, t) ==
    IF Len(reqs) = 0 THEN 0
    ELSE LET oldestRequest == SeqMin(reqs)
             timeUntilExpiry == RATE_LIMIT_WINDOW_MS - (t - oldestRequest)
         IN  Max(0, CeilDiv(timeUntilExpiry, 1000))

\* The history of admissions is kept for one window: the admissions whose
\* instant a satisfies t - window < a <= t, as the claims count them.
Recent(hist, t) ==
    SelectSeq(hist, LAMBDA a : t - RATE_LIMIT_WINDOW_MS < a /\ a <= t)

\* The wait time that getWaitTime() gave right after a refusal of
\* allowRequest(): the clock readings of the two calls and the seconds.  It
\* is given until the next admission.
NoAdvice == [given |-> FALSE, refusedAt |-> 0, askedAt |-> 0, wait |-> 0]

NoCall == [op |-> "none", at |-> 0, ret |-> 0, before |-> <<>>,
           advice |-> NoAdvice]

\* A caller invokes allowRequest() at some clock reading t >= now.
LimAllowRequest ==
    \E t \in ClockReads(now) :
        /\ now' = t
        /\ requests' = AllowRequestState(requests, t)
        /\ admitted' = IF AllowRequestResult(requests, t)
                       THEN Append(Recent(admitted, t), t)
                       ELSE Recent(admitted, t)
        /\ lim' = [op |-> "allowRequest", at |-> t,
                   ret |-> IF AllowRequestResult(requests, t) THEN 1 ELSE 0,
                   before |-> requests,
                   advice |-> IF AllowRequestResult(requests, t)
                              THEN [lim.advice EXCEPT !.given = FALSE]
                              ELSE lim.advice]
        /\ UNCHANGED <<inv, res>>

LimGetWaitTime_Purges ==
    \E t \in ClockReads(now) :
        /\ now' = t
        /\ lim' = [op |-> "getWaitTime", at |-> t,
                   ret |-> GetWaitTime(requests, t), before |-> requests,
                   advice |-> IF lim.op = "allowRequest" /\ lim.ret = 0
                              THEN [given |-> TRUE, refusedAt |-> lim.at,
                                    askedAt |-> t,
                                    wait |-> GetWaitTime(requests, t)]
                              ELSE lim.advice]
        /\ admitted' = Recent(admitted, t)
        /\ requests' = Purge(requests, t)
        /\ UNCHANGED <<inv, res>>

\* A caller invokes getWaitTime() at some clock reading t >= now.
LimGetWaitTime ==
    \E t \in ClockReads(now) :
        /\ now' = t
        /\ lim' = [op |-> "getWaitTime", at |-> t,
                   ret |-> GetWaitTime(requests, t), before |-> requests,
                   advice |-> IF lim.op = "allowRequest" /\ lim.ret = 0
                              THEN [given |-> TRUE, refusedAt |-> lim.at,
                                    askedAt |-> t,
                                    wait |-> GetWaitTime(requests, t)]
                              ELSE lim.advice]
        /\ admitted' = Recent(admitted, t)
        /\ UNCHANGED <<requests, inv, res>>

NoRes == [called |-> FALSE, input |-> <<>>, at |-> 0]

InitLimiter ==
    /\ now = 0
    /\ requests = <<>>
    /\ admitted = <<>>
    /\ lim = NoCall
    /\ inv = <<>>
    /\ res = NoRes

NextLimiter == LimAllowRequest \/ LimGetWaitTime

\* The RateLimiter object alone, driven through its two public methods.
SpecLimiter == InitLimiter /\ [][NextLimiter]_vars

----------------------------------------------------------------------------
(* Dates and the date resolver (search-playlist.ts, parseDateInput)        *)

DayMs == 24 * 60 * 60 * 1000

\* The model's origin, clock reading 0, is 23:59:00.000 UTC of day 0, so the
\* clock readings cross midnight: reading 59999 is 23:59:59.999 of day 0 and
\* reading 60000 is 00:00:00.000 of day 1.
OriginMs == DayMs - RATE_LIMIT_WINDOW_MS

\* new Date() at clock reading t.
DateOfClock(t) ==
    [valid |-> TRUE, day |-> (OriginMs + t) \div DayMs,
     ms |-> (OriginMs + t) % DayMs]

\* An Invalid Date: getTime() is NaN.
InvalidDate == [valid |-> FALSE, day |-> 0, ms |-> 0]

\* a > b and a < b on Dates; a comparison with NaN is false.
DateAfter(a, b) ==
    /\ a.valid /\ b.valid
    /\ \/ a.day > b.day
       \/ a.day = b.day /\ a.ms > b.ms

DateBefore(a, b) == DateAfter(b, a)

\* A date input string is modelled by the pieces that split(' to ') gives:
\* one piece when the string holds no ' to '.  A piece is a calendar date
\* "YYYY-MM-DD", a date with a time "YYYY-MM-DDTHH:MM:SS.sssZ", some other
\* text, or the empty string, possibly padded with white space.
DateOnly(d) == [kind |-> "date", day |-> d, ms |-> 0, pad |-> FALSE]
DateTime(d, m) == [kind |-> "datetime", day |-> d, ms |-> m, pad |-> FALSE]
OtherText == [kind |-> "text", day |-> 0, ms |-> 0, pad |-> FALSE]
EmptyText == [kind |-> "empty", day |-> 0, ms |-> 0, pad |-> FALSE]
Padded(c) == [c EXCEPT !.pad = TRUE]

\* String.prototype.trim on a piece.
Trim(c) == [c EXCEPT !.pad = FALSE]

\* new Date(str): a calendar date is UTC midnight of its day, a date with a
\* time is that instant, anything else is an Invalid Date.  White space
\* around a date is skipped by the parser.
NewDate(c) ==
    CASE c.kind = "date"     -> [valid |-> TRUE, day |-> c.day, ms |-> 0]
      [] c.kind = "datetime" -> [valid |-> TRUE, day |-> c.day, ms |-> c.ms]
      [] OTHER               -> InvalidDate

\* date.setUTCHours(0, 0, 0, 0) and date.setUTCHours(23, 59, 59, 999).
StartOfDay(d) == [d EXCEPT !.ms = 0]
EndOfDay(d) == [d EXCEPT !.ms = (((23 * 60) + 59) * 60 + 59) * 1000 + 999]

\* d.setDate(d.getDate() - n): the same time of day n calendar days earlier
\* (the server's zone is taken to have no clock change in between).
DaysBefore(d, n) == [d EXCEPT !.day = d.day - n]

Resolved(s, e) ==
    [ok |-> TRUE, error |-> "", startDateTime |-> s, endDateTime |-> e]
DateError(kind) ==
    [ok |-> FALSE, error |-> kind,
     startDateTime |-> InvalidDate, endDateTime |-> InvalidDate]

\* The try block of parseDateInput: the two bounds, or a thrown error.
SingleEnd_NotRaised(startDate) == startDate

\* Single date: endDate = new Date(startDate); endDate.setUTCHours(23,59,59,999).
SingleEnd(startDate) == EndOfDay(startDate)

ParseBounds(dateInput) ==
    LET isRange == Len(dateInput) > 1
    IN  IF isRange
        THEN LET startStr == Trim(dateInput[1])
                 endStr   == Trim(dateInput[2])
                 startDate == NewDate(startStr)
                 endDate   == NewDate(endStr)
             IN  IF ~startDate.valid \/ ~endDate.valid
                 THEN [thrown |-> TRUE, s |-> InvalidDate, e |-> InvalidDate]
                 ELSE [thrown |-> FALSE, s |-> StartOfDay(startDate),
                       e |-> EndOfDay(endDate)]
        ELSE LET startDate == NewDate(dateInput[1])
             IN  IF ~startDate.valid
                 THEN [thrown |-> TRUE, s |-> InvalidDate, e |-> InvalidDate]
                 ELSE [thrown |-> FALSE, s |-> StartOfDay(startDate),
                       e |-> SingleEnd(StartOfDay(startDate))]

ChecksAfterParse_OldFirst(b, nowDate) ==
    LET ninetyDaysAgo == DaysBefore(nowDate, 90)
    IN  IF DateBefore(b.s, ninetyDaysAgo) THEN DateError("DateTooOld")
        ELSE IF DateAfter(b.s, nowDate) \/ DateAfter(b.e, nowDate)
        THEN DateError("FutureDateRejected")
        ELSE IF DateAfter(b.s, b.e) THEN DateError("RangeOrderInvalid")
        ELSE Resolved(b.s, b.e)

ChecksAfterParse_NoOrderCheck(b, nowDate) ==
    LET ninetyDaysAgo == DaysBefore(nowDate, 90)
    IN  IF DateAfter(b.s, nowDate) \/ DateAfter(b.e, nowDate)
        THEN DateError("FutureDateRejected")
        ELSE IF DateBefore(b.s, ninetyDaysAgo) THEN DateError("DateTooOld")
        ELSE Resolved(b.s, b.e)

\* The three validations after the try block, in the code's order.
ChecksAfterParse(b, nowDate) ==
    LET ninetyDaysAgo == DaysBefore(nowDate, 90)
    IN  IF DateAfter(b.s, nowDate) \/ DateAfter(b.e, nowDate)
        THEN DateError("FutureDateRejected")
        ELSE IF DateBefore(b.s, ninetyDaysAgo) THEN DateError("DateTooOld")
        ELSE IF DateAfter(b.s, b.e) THEN DateError("RangeOrderInvalid")
        ELSE Resolved(b.s, b.e)

\* parseDateInput(dateInput) with new Date() read at clock reading t.  The
\* result's two Dates stand for their toISOString() renderings, which keep
\* the day and the millisecond.
ParseDateInput(dateInput, t) ==
    LET b == ParseBounds(dateInput)
    IN  IF b.thrown THEN DateError("InvalidDateFormat")
        ELSE ChecksAfterParse(b, DateOfClock(t))

\* The inputs the resolver is tried on.  Days are relative to the origin day.
InputDays == {-91, -90, -89, -2, -1, 0, 1}
InputTimes == {12 * 60 * 60 * 1000, DayMs - 1}
Pieces ==
    {OtherText, EmptyText}
        \cup {DateOnly(d) : d \in InputDays}
        \cup {DateTime(d, m) : d \in InputDays, m \in InputTimes}
DateInputs ==
    {<<c>> : c \in Pieces \ {EmptyText}}
        \cup {<<a, b>> : a \in Pieces, b \in Pieces}
        \cup {<<Padded(DateOnly(-2)), Padded(DateOnly(-1))>>,
              <<DateOnly(-2), DateOnly(-1), OtherText>>}

\* A caller applies parseDateInput to the drawn input at a clock reading.
Resolve ==
    /\ ~res.called
    /\ \E t \in ClockReads(now) :
          /\ now' = t
          /\ res' = [called |-> TRUE, input |-> res.input, at |-> t,
                     out |-> ParseDateInput(res.input, t)]
    /\ UNCHANGED <<requests, admitted, lim, inv>>

InitResolver ==
    /\ now \in Instants
    /\ requests = <<>>
    /\ admitted = <<>>
    /\ lim = NoCall
    /\ inv = <<>>
    /\ res \in {[called |-> FALSE, input |-> i, at |-> 0,
                 out |-> DateError("")] : i \in DateInputs}

NextResolver == Resolve

\* parseDateInput alone, applied to every drawn input at every clock reading.
SpecResolver == InitResolver /\ [][NextResolver]_vars

----------------------------------------------------------------------------
(* JavaScript values as the tools see them                                 *)

\* A value is undefined, a string (a sequence of characters) or a number
\* (n, or n + 1/2 when half is set).
Undef == [t |-> "undefined", s |-> <<>>, n |-> 0, half |-> FALSE]
Str(chars) == [t |-> "string", s |-> chars, n |-> 0, half |-> FALSE]
Num(k) == [t |-> "number", s |-> <<>>, n |-> k, half |-> FALSE]
NumAndHalf(k) == [t |-> "number", s |-> <<>>, n |-> k, half |-> TRUE]

\* The truthiness of a value: undefined, "" and 0 are falsy.
Truthy(v) ==
    CASE v.t = "string" -> v.s # <<>>
      [] v.t = "number" -> v.n # 0 \/ v.half
      [] OTHER -> FALSE

\* a || b
OrElse(a, b) == IF Truthy(a) THEN a ELSE b

UpperCase ==
    {"A", "B", "C", "D", "E", "F", "G", "H", "I", "J", "K", "L", "M",
     "N", "O", "P", "Q", "R", "S", "T", "U", "V", "W", "X", "Y", "Z"}

LowerOf ==
    [c \in UpperCase |->
        CASE c = "A" -> "a" [] c = "B" -> "b" [] c = "C" -> "c"
          [] c = "D" -> "d" [] c = "E" -> "e" [] c = "F" -> "f"
          [] c = "G" -> "g" [] c = "H" -> "h" [] c = "I" -> "i"
          [] c = "J" -> "j" [] c = "K" -> "k" [] c = "L" -> "l"
          [] c = "M" -> "m" [] c = "N" -> "n" [] c = "O" -> "o"
          [] c = "P" -> "p" [] c = "Q" -> "q" [] c = "R" -> "r"
          [] c = "S" -> "s" [] c = "T" -> "t" [] c = "U" -> "u"
          [] c = "V" -> "v" [] c = "W" -> "w" [] c = "X" -> "x"
          [] c = "Y" -> "y" [] c = "Z" -> "z"]

ToLowerCase_Identity(chars) == chars

\* String.prototype.toLowerCase
ToLowerCase(chars) ==
    [i \in DOMAIN chars |->
        IF chars[i] \in UpperCase THEN LowerOf[chars[i]] ELSE chars[i]]

\* String.prototype.includes
Includes(chars, part) ==
    \E k \in 0..(Len(chars) - Len(part)) :
        \A j \in 1..Len(part) : chars[k + j] = part[j]

----------------------------------------------------------------------------
(* Input validation (search-playlist.ts, the two Zod schemas)              *)

\* The arguments of a tool call: request.params.arguments, an object whose
\* date holds the pieces of its string when it is one, or undefined.
Args(d, a, l) == [given |-> TRUE, date |-> d, artist_filter |-> a, limit |-> l]
NoArgs ==
    [given |-> FALSE, date |-> [t |-> "undefined", s |-> <<>>],
     artist_filter |-> Undef, limit |-> Undef]
DateStr(pieces) == [t |-> "string", s |-> pieces]
DateUndef == [t |-> "undefined", s |-> <<>>]
DateNum == [t |-> "number", s |-> <<>>]

Issue(path, code, message) ==
    [path |-> path, code |-> code, message |-> message]

\* date: z.string().min(1, 'Date is required')
DateIssues(d) ==
    IF d.t = "undefined" THEN <<Issue("date", "invalid_type", "Required")>>
    ELSE IF d.t # "string"
    THEN <<Issue("date", "invalid_type", "Expected string")>>
    ELSE IF d.s = <<EmptyText>>
    THEN <<Issue("date", "too_small", "Date is required")>>
    ELSE <<>>

\* artist_filter: z.string().optional()
ArtistFilterIssues(a) ==
    IF a.t \in {"undefined", "string"} THEN <<>>
    ELSE <<Issue("artist_filter", "invalid_type", "Expected string")>>

LimitIssues_NoMax(l) ==
    IF l.t = "undefined" THEN <<>>
    ELSE IF l.t # "number"
    THEN <<Issue("limit", "invalid_type", "Expected number")>>
    ELSE (IF l.half
          THEN <<Issue("limit", "invalid_type", "Expected integer")>>
          ELSE <<>>)
         \o (IF l.n < 1
             THEN <<Issue("limit", "too_small", "Number must be >= 1")>>
             ELSE <<>>)

\* limit: z.number().int().min(1).max(100).default(25); every failing check
\* of a number adds its own issue.
LimitIssues(l) ==
    IF l.t = "undefined" THEN <<>>
    ELSE IF l.t # "number"
    THEN <<Issue("limit", "invalid_type", "Expected number")>>
    ELSE (IF l.half
          THEN <<Issue("limit", "invalid_type", "Expected integer")>>
          ELSE <<>>)
         \o (IF l.n < 1
             THEN <<Issue("limit", "too_small", "Number must be >= 1")>>
             ELSE <<>>)
         \o (IF l.n > 100 \/ (l.n = 100 /\ l.half)
             THEN <<Issue("limit", "too_big", "Number must be <= 100")>>
             ELSE <<>>)

DEFAULT_LIMIT == 25

\* SearchPlaylistSchema.parse(args || {}): the issues of a ZodError, in the
\* order of the schema's keys, or the validated input.
SearchPlaylistSchemaParse(args) ==
    LET issues == DateIssues(args.date) \o ArtistFilterIssues(args.artist_filter)
                      \o LimitIssues(args.limit)
    IN  [ok |-> issues = <<>>,
         issues |-> issues,
         input |-> [date |-> args.date.s,
                    artist_filter |-> args.artist_filter,
                    limit |-> IF args.limit.t = "undefined"
                              THEN DEFAULT_LIMIT ELSE args.limit.n]]

GetCurrentPlaylistSchemaParse_Strict(args) ==
    [ok |-> ~args.given,
     issues |-> IF args.given
                THEN <<Issue("", "unrecognized_keys", "Unrecognized key")>>
                ELSE <<>>,
     input |-> [date |-> <<>>, artist_filter |-> Undef, limit |-> 0]]

\* GetCurrentPlaylistSchema.parse(args || {}): z.object({}) accepts every
\* object and drops its keys.
GetCurrentPlaylistSchemaParse(args) ==
    [ok |-> TRUE, issues |-> <<>>,
     input |-> [date |-> <<>>, artist_filter |-> Undef, limit |-> 0]]

----------------------------------------------------------------------------
(* Songs and the response normalizer (search-playlist.ts)                  *)

Some(x) == [present |-> TRUE, v |-> x]
None == [present |-> FALSE, v |-> 0]
NoDate == [present |-> FALSE, v |-> InvalidDate]

\* A timestamp of an upstream record: undefined, or a string holding a piece.
TimeUndef == [t |-> "undefined", piece |-> EmptyText]
TimeStr(c) == [t |-> "string", piece |-> c]
TimeTruthy(x) == x.t = "string" /\ x.piece # EmptyText

\* date.toISOString(): the text of the instant, to the millisecond.
ToISOString(d) == DateTime(d.day, d.ms)

\* b.getTime() - a.getTime(), in milliseconds.
MsBetween(a, b) == (b.day - a.day) * DayMs + (b.ms - a.ms)

\* An upstream record (SRApiSong), or the empty string an empty element
\* decodes to (empty: every property of it is undefined).
ApiSong(title, artist, start, stop) ==
    [empty |-> FALSE, title |-> title, artist |-> artist,
     composer |-> Undef, albumname |-> Undef, recordlabel |-> Undef,
     description |-> Undef, starttimeutc |-> start, stoptimeutc |-> stop]
EmptyElement ==
    [empty |-> TRUE, title |-> Undef, artist |-> Undef,
     composer |-> Undef, albumname |-> Undef, recordlabel |-> Undef,
     description |-> Undef, starttimeutc |-> TimeUndef,
     stoptimeutc |-> TimeUndef]

UnknownTitle == <<"U", "n", "k", "n", "o", "w", "n", " ", "T", "i", "t", "l", "e">>
UnknownArtist ==
    <<"U", "n", "k", "n", "o", "w", "n", " ", "A", "r", "t", "i", "s", "t">>

Duration_NotStrict(startTime, stopTime) ==
    LET start == NewDate(startTime)
        stop  == NewDate(stopTime)
    IN  IF start.valid /\ stop.valid /\ ~DateAfter(start, stop)
        THEN Some(MsBetween(start, stop) \div 1000)
        ELSE None

\* parseSong, the duration: whole seconds when both timestamps parse and stop
\* is after start, else left undefined.
Duration(startTime, stopTime) ==
    LET start == NewDate(startTime)
        stop  == NewDate(stopTime)
    IN  IF start.valid /\ stop.valid /\ DateAfter(stop, start)
        THEN Some(MsBetween(start, stop) \div 1000)
        ELSE None

\* The Song both parseSong functions build.
MakeSong(id, apiSong, startTime, stopTime) ==
    [id |-> id,
     title |-> OrElse(apiSong.title, Str(UnknownTitle)),
     artist |-> OrElse(apiSong.artist, Str(UnknownArtist)),
     composer |-> apiSong.composer,
     albumName |-> apiSong.albumname,
     recordLabel |-> apiSong.recordlabel,
     startTimeUTC |-> startTime,
     stopTimeUTC |-> stopTime,
     duration |-> Duration(startTime, stopTime),
     description |-> apiSong.description]

ParseSongSearch_OneBased(apiSong, index, tStart, tStop) ==
    MakeSong(Some(index + 1), apiSong,
             IF TimeTruthy(apiSong.starttimeutc) THEN apiSong.starttimeutc.piece
             ELSE ToISOString(DateOfClock(tStart)),
             IF TimeTruthy(apiSong.stoptimeutc) THEN apiSong.stoptimeutc.piece
             ELSE ToISOString(DateOfClock(tStop)))

\* parseSong(apiSong, index) of the search tool; a missing start or stop time
\* is new Date().toISOString(), read at the clock readings tStart and tStop.
ParseSongSearch(apiSong, index, tStart, tStop) ==
    MakeSong(Some(index), apiSong,
             IF TimeTruthy(apiSong.starttimeutc) THEN apiSong.starttimeutc.piece
             ELSE ToISOString(DateOfClock(tStart)),
             IF TimeTruthy(apiSong.stoptimeutc) THEN apiSong.stoptimeutc.piece
             ELSE ToISOString(DateOfClock(tStop)))

\* parseSong(apiSong, fallbackTime) of the current-playlist tool: null for a
\* falsy record, and no id.
ParseSongCurrent(apiSong, fallbackTime) ==
    IF apiSong.empty THEN <<>>
    ELSE <<MakeSong(None, apiSong,
                    IF TimeTruthy(apiSong.starttimeutc)
                    THEN apiSong.starttimeutc.piece ELSE fallbackTime,
                    IF TimeTruthy(apiSong.stoptimeutc)
                    THEN apiSong.stoptimeutc.piece ELSE fallbackTime)>>

\* A node of the decoded tree that holds records: undefined, one element, or
\* an array of elements.
NodeUndef == [t |-> "undefined", items |-> <<>>]
NodeOne(x) == [t |-> "single", items |-> <<x>>]
NodeArray(xs) == [t |-> "array", items |-> xs]

NormalizeToArray_FirstOnly(item) ==
    IF item.t = "undefined" \/ (item.t = "single" /\ item.items[1].empty)
    THEN <<>>
    ELSE IF Len(item.items) = 0 THEN <<>> ELSE <<item.items[1]>>

\* normalizeToArray(item): [] for a falsy item, the array itself, or [item].
NormalizeToArray(item) ==
    IF item.t = "undefined" \/ (item.t = "single" /\ item.items[1].empty)
    THEN <<>>
    ELSE item.items

\* filterByArtist(songs, artistFilter); toLowerCase of an artist that is not
\* a string throws a TypeError.
FilterByArtist(songs, artistFilter) ==
    LET filterLower == ToLowerCase(artistFilter)
    IN  IF \E i \in DOMAIN songs : songs[i].artist.t # "string"
        THEN [thrown |-> TRUE, songs |-> <<>>]
        ELSE [thrown |-> FALSE,
              songs |-> SelectSeq(songs, LAMBDA song :
                            Includes(ToLowerCase(song.artist.s), filterLower))]

ApplyLimit_LastItems(songs, limit) ==
    IF Len(songs) > limit
    THEN SubSeq(songs, Len(songs) - limit + 1, Len(songs))
    ELSE songs

\* songs.slice(0, limit) when songs.length > limit
ApplyLimit(songs, limit) ==
    IF Len(songs) > limit THEN SubSeq(songs, 1, limit) ELSE songs

----------------------------------------------------------------------------
(* SRApiClient (api-client.ts)                                             *)

\* An error message: its kind, the number it carries (the wait seconds, the
\* status code, the count of songs) and the text it quotes.
Err(kind, n, text) == [kind |-> kind, n |-> n, text |-> text]
NoErr == Err("", 0, <<>>)

\* checkRateLimit's error for the wait time computed after the refusal.
RateLimitError(waitTime) == Err("RateLimited", waitTime, <<>>)

\* The decoded tree: response.sr?.playlist and its three nodes.
Tree(hasSr, hasPlaylist, song, previoussong, nextsong) ==
    [sr |-> hasSr, playlist |-> hasPlaylist, song |-> song,
     previoussong |-> previoussong, nextsong |-> nextsong]
NoTree == Tree(FALSE, FALSE, NodeUndef, NodeUndef, NodeUndef)

\* What the awaited axios GET and the XML parse do: the GET resolves with a
\* 2xx response whose body the parser decodes or throws on, or it rejects
\* with an error.
Decoded(tree) ==
    [resolved |-> TRUE, parseThrows |-> FALSE, tree |-> tree,
     isAxiosError |-> FALSE, code |-> "", hasResponse |-> FALSE, status |-> 0,
     hasRequest |-> FALSE]
Undecodable ==
    [resolved |-> TRUE, parseThrows |-> TRUE, tree |-> NoTree,
     isAxiosError |-> FALSE, code |-> "", hasResponse |-> FALSE, status |-> 0,
     hasRequest |-> FALSE]
Rejected(isAxios, code, hasResponse, status, hasRequest) ==
    [resolved |-> FALSE, parseThrows |-> FALSE, tree |-> NoTree,
     isAxiosError |-> isAxios, code |-> code, hasResponse |-> hasResponse,
     status |-> status, hasRequest |-> hasRequest]

MakeRequestError_ResponseFirst(o) ==
    IF ~o.resolved /\ o.isAxiosError /\ o.hasResponse
    THEN Err("UpstreamError", o.status, <<>>)
    ELSE IF ~o.resolved /\ o.isAxiosError
            /\ o.code \in {"ECONNABORTED", "ETIMEDOUT"}
    THEN Err("Timeout", 0, <<>>)
    ELSE IF ~o.resolved /\ o.isAxiosError /\ o.hasRequest
    THEN Err("Unreachable", 0, <<>>)
    ELSE Err("Unknown", 0, <<>>)

\* makeRequest, the catch block: the error thrown for a failed attempt.
MakeRequestError(o) ==
    IF ~o.resolved /\ o.isAxiosError
            /\ o.code \in {"ECONNABORTED", "ETIMEDOUT"}
    THEN Err("Timeout", 0, <<>>)
    ELSE IF ~o.resolved /\ o.isAxiosError /\ o.hasResponse
    THEN Err("UpstreamError", o.status, <<>>)
    ELSE IF ~o.resolved /\ o.isAxiosError /\ o.hasRequest
    THEN Err("Unreachable", 0, <<>>)
    ELSE Err("Unknown", 0, <<>>)

\* makeRequest after its await: the parsed tree, or the thrown error.
MakeRequestResult(o) ==
    IF o.resolved /\ ~o.parseThrows
    THEN [ok |-> TRUE, error |-> NoErr, tree |-> o.tree]
    ELSE [ok |-> FALSE, error |-> MakeRequestError(o), tree |-> NoTree]

\* checkRateLimit() with allowRequest reading the clock at tAllow and
\* getWaitTime at tWait: whether it throws, the error, and state.requests.
CheckRateLimit_NeverThrows(reqs, tAllow, tWait) ==
    [thrown |-> FALSE,
     error |-> NoErr,
     requests |-> AllowRequestState(reqs, tAllow)]

CheckRateLimit(reqs, tAllow, tWait) ==
    [thrown |-> ~AllowRequestResult(reqs, tAllow),
     error |-> IF AllowRequestResult(reqs, tAllow) THEN NoErr
               ELSE RateLimitError(
                        GetWaitTime(AllowRequestState(reqs, tAllow), tWait)),
     requests |-> AllowRequestState(reqs, tAllow)]

----------------------------------------------------------------------------
(* The two tools (search-playlist.ts)                                      *)

Metadata(timestamp, type, startDate, endDate, artistFilter, limit) ==
    [channel |-> "P3", channelId |-> P3_CHANNEL_ID,
     timestamp |-> ToISOString(timestamp),
     query |-> [type |-> type, startDate |-> startDate, endDate |-> endDate,
                artistFilter |-> artistFilter, limit |-> limit]]

ErrorsField_AlwaysPresent(errors) == [present |-> TRUE, v |-> errors]

\* errors: errors.length > 0 ? errors : undefined
ErrorsField(errors) == [present |-> errors # <<>>, v |-> errors]

PlaylistResponse(songs, metadata, errors) ==
    [songs |-> songs, metadata |-> metadata, errors |-> errors]

SearchFailure_NoMessage(input, error, t) ==
    PlaylistResponse(<<>>,
        Metadata(DateOfClock(t), "date-range", NoDate, NoDate,
                 input.artist_filter, Some(input.limit)),
        ErrorsField(<<>>))

\* searchPlaylistByDate, the catch block, with new Date() read at t.
SearchFailure(input, error, t) ==
    PlaylistResponse(<<>>,
        Metadata(DateOfClock(t), "date-range", NoDate, NoDate,
                 input.artist_filter, Some(input.limit)),
        [present |-> TRUE, v |-> <<error>>])

\* getCurrentPlaylist, the catch block, with new Date() read at t.
CurrentFailure(error, t) ==
    PlaylistResponse(<<>>,
        Metadata(DateOfClock(t), "current", NoDate, NoDate, Undef, None),
        [present |-> TRUE, v |-> <<error>>])

NoPlaylistData == Err("NoPlaylistData", 0, <<>>)
ArtistTypeError == Err("TypeError", 0, <<>>)

NoMatchWarning_AlsoForEmptyList(originalCount, songs, artistFilter) ==
    IF Len(songs) = 0
    THEN <<Err("NoSongsMatchingFilter", originalCount, artistFilter)>>
    ELSE <<>>

\* errors.push(`No songs found matching artist filter: ...`) when the filter
\* has emptied a list that held originalCount > 0 songs.
NoMatchWarning(originalCount, songs, artistFilter) ==
    IF Len(songs) = 0 /\ originalCount > 0
    THEN <<Err("NoSongsMatchingFilter", originalCount, artistFilter)>>
    ELSE <<>>

\* The clock readings searchPlaylistByDate takes after its await: two per
\* upstream record (the fallbacks of parseSong) and one for the timestamp.
SearchReads(fetched) ==
    IF fetched.ok /\ fetched.tree.sr /\ fetched.tree.playlist
    THEN 2 * Len(NormalizeToArray(fetched.tree.song)) + 1
    ELSE 1

\* searchPlaylistByDate from the return of its await to its return value;
\* reads are the clock readings of its new Date() calls, in order.
SearchAfterFetch(input, startDateTime, endDateTime, fetched, reads) ==
    LET last == reads[Len(reads)]
    IN  IF ~fetched.ok THEN SearchFailure(input, fetched.error, last)
        ELSE IF ~(fetched.tree.sr /\ fetched.tree.playlist)
        THEN SearchFailure(input, NoPlaylistData, last)
        ELSE
        LET apiSongs == NormalizeToArray(fetched.tree.song)
            songs == [i \in DOMAIN apiSongs |->
                         ParseSongSearch(apiSongs[i], i - 1,
                                         reads[2 * i - 1], reads[2 * i])]
            filtering == Truthy(input.artist_filter)
            filtered == IF filtering
                        THEN FilterByArtist(songs, input.artist_filter.s)
                        ELSE [thrown |-> FALSE, songs |-> songs]
            errors == IF filtering
                      THEN NoMatchWarning(Len(songs), filtered.songs,
                                          input.artist_filter.s)
                      ELSE <<>>
        IN  IF filtered.thrown THEN SearchFailure(input, ArtistTypeError, last)
            ELSE PlaylistResponse(
                    ApplyLimit(filtered.songs, input.limit),
                    Metadata(DateOfClock(last), "date-range",
                             [present |-> TRUE, v |-> startDateTime],
                             [present |-> TRUE, v |-> endDateTime],
                             input.artist_filter, Some(input.limit)),
                    ErrorsField(errors))

\* The clock readings getCurrentPlaylist takes after its await: currentTime,
\* and another one in the catch block when the playlist node is missing.
CurrentReads(fetched) ==
    IF fetched.ok /\ ~(fetched.tree.sr /\ fetched.tree.playlist) THEN 2 ELSE 1

\* The first record of a node, parsed, or nothing.
FirstSong(node, currentTime) ==
    LET list == NormalizeToArray(node)
    IN  IF Len(list) > 0 THEN ParseSongCurrent(list[1], currentTime) ELSE <<>>

SlotOrder_CurrentFirst(previousSong, currentSong, nextSong) ==
    currentSong \o previousSong \o nextSong

\* songs.push in the order previous, current, next.
SlotOrder(previousSong, currentSong, nextSong) ==
    previousSong \o currentSong \o nextSong

NoSongsWarning_Never(songs) == <<>>

\* errors.push('No songs found in the current playlist')
NoSongsWarning(songs) ==
    IF Len(songs) = 0 THEN <<Err("NoSongsInCurrentPlaylist", 0, <<>>)>>
    ELSE <<>>

\* getCurrentPlaylist from the return of its await to its return value.
CurrentAfterFetch(fetched, reads) ==
    LET last == reads[Len(reads)]
    IN  IF ~fetched.ok THEN CurrentFailure(fetched.error, last)
        ELSE IF ~(fetched.tree.sr /\ fetched.tree.playlist)
        THEN CurrentFailure(NoPlaylistData, last)
        ELSE
        LET currentTime == ToISOString(DateOfClock(reads[1]))
            currentSong == FirstSong(fetched.tree.song, currentTime)
            previousSong == FirstSong(fetched.tree.previoussong, currentTime)
            nextSong == FirstSong(fetched.tree.nextsong, currentTime)
            songs == SlotOrder(previousSong, currentSong, nextSong)
        IN  PlaylistResponse(songs,
                Metadata(DateOfClock(reads[1]), "current", NoDate, NoDate,
                         Undef, None),
                ErrorsField(NoSongsWarning(songs)))

----------------------------------------------------------------------------
(* The tool call handler (part_000, CallToolRequestSchema handler)         *)

NoResponse == PlaylistResponse(<<>>,
                  Metadata(DateOfClock(0), "", NoDate, NoDate, Undef, None),
                  [present |-> FALSE, v |-> <<>>])

\* The handler's return value: the response as JSON text, or an error text
\* with isError set.
ToolResult(response) ==
    [isError |-> FALSE, error |-> "", items |-> <<>>, response |-> response]
ToolError(message, issues) ==
    [isError |-> TRUE, error |-> message,
     items |-> [k \in DOMAIN issues |->
                   [path |-> issues[k].path, message |-> issues[k].message]],
     response |-> NoResponse]

NoInput == [date |-> <<>>, artist_filter |-> Undef, limit |-> 0]

\* An invocation of the handler: where it stands, what it was called with,
\* what it keeps across its await, and for the record of the run: the clock
\* reading of the date resolver, the limiter's verdict and the wait time it
\* gave, the number of GETs issued, and how the GET settled.
Idle ==
    [pc |-> "idle", tool |-> "", args |-> NoArgs, input |-> NoInput,
     startDateTime |-> InvalidDate, endDateTime |-> InvalidDate,
     resolvedAt |-> 0, verdict |-> "none", wait |-> 0, gets |-> 0,
     outcome |-> Undecodable, result |-> ToolResult(NoResponse)]

\* Non-decreasing clock readings for the n readings of one run.
ReadSeqs(instants, t, n) ==
    {r \in [1..n -> {u \in instants : u >= t}] :
        \A k \in 1..(n - 1) : r[k] <= r[k + 1]}

\* default: throw new Error(`Unknown tool: ${name}`)
CallUnknownTool(i, args) ==
    /\ inv[i].pc = "idle"
    /\ inv' = [inv EXCEPT ![i] =
                  [Idle EXCEPT !.pc = "done", !.tool = "unknown", !.args = args,
                               !.result = ToolError("UnknownTool", <<>>)]]
    /\ UNCHANGED <<now, requests, admitted, lim, res>>

\* case 'get_p3_current_playlist', up to the await of the GET or, when the
\* limiter refuses, to the handler's return.
CallCurrent(i, args, reads) ==
    /\ inv[i].pc = "idle"
    /\ LET parsed == GetCurrentPlaylistSchemaParse(args)
           call == [Idle EXCEPT !.tool = "current", !.args = args,
                                !.input = parsed.input]
           check == CheckRateLimit(requests, reads[1], reads[2])
           ok == AllowRequestResult(requests, reads[1])
       IN  IF ~parsed.ok
           THEN /\ inv' = [inv EXCEPT ![i] =
                      [call EXCEPT !.pc = "done",
                          !.result = ToolError("InputValidationFailed",
                                               parsed.issues)]]
                /\ UNCHANGED <<now, requests, admitted>>
           ELSE
           /\ requests' = check.requests
           /\ admitted' = IF ok THEN Append(Recent(admitted, reads[1]), reads[1])
                          ELSE Recent(admitted, reads[3])
           /\ IF check.thrown
              THEN /\ inv' = [inv EXCEPT ![i] =
                        [call EXCEPT !.pc = "done",
                            !.verdict = IF ok THEN "admitted" ELSE "rejected",
                            !.wait = GetWaitTime(requests', reads[2]),
                            !.result = ToolResult(
                                CurrentFailure(check.error, reads[3]))]]
                   /\ now' = reads[3]
              ELSE /\ inv' = [inv EXCEPT ![i] =
                        [call EXCEPT !.pc = "awaiting",
                            !.verdict = IF ok THEN "admitted" ELSE "rejected",
                            !.gets = 1]]
                   /\ now' = reads[1]
    /\ UNCHANGED <<lim, res>>

CallSearch_LimiterFirst(i, args, reads) ==
    /\ inv[i].pc = "idle"
    /\ LET parsed == SearchPlaylistSchemaParse(args)
           call == [Idle EXCEPT !.tool = "search", !.args = args]
       IN  IF ~parsed.ok
           THEN /\ inv' = [inv EXCEPT ![i] =
                      [call EXCEPT !.pc = "done",
                          !.result = ToolError("InputValidationFailed",
                                               parsed.issues)]]
                /\ UNCHANGED <<now, requests, admitted>>
           ELSE
           LET check == CheckRateLimit(requests, reads[1], reads[2])
               ok == AllowRequestResult(requests, reads[1])
               dates == ParseDateInput(parsed.input.date, reads[3])
               valid == [call EXCEPT !.input = parsed.input,
                                     !.resolvedAt = reads[3],
                                     !.verdict = IF ok THEN "admitted"
                                                 ELSE "rejected"]
           IN  /\ requests' = check.requests
               /\ admitted' =
                     IF ok THEN Append(Recent(admitted, reads[1]), reads[1])
                     ELSE Recent(admitted, reads[4])
               /\ IF check.thrown
                  THEN /\ inv' = [inv EXCEPT ![i] =
                            [valid EXCEPT !.pc = "done",
                                !.wait = GetWaitTime(requests', reads[2]),
                                !.result = ToolResult(SearchFailure(
                                    parsed.input, check.error, reads[4]))]]
                       /\ now' = reads[4]
                  ELSE IF ~dates.ok
                  THEN /\ inv' = [inv EXCEPT ![i] =
                            [valid EXCEPT !.pc = "done",
                                !.result = ToolResult(SearchFailure(
                                    parsed.input, Err(dates.error, 0, <<>>),
                                    reads[4]))]]
                       /\ now' = reads[4]
                  ELSE /\ inv' = [inv EXCEPT ![i] =
                            [valid EXCEPT !.pc = "awaiting", !.gets = 1,
                                !.startDateTime = dates.startDateTime,
                                !.endDateTime = dates.endDateTime]]
                       /\ now' = reads[1]
    /\ UNCHANGED <<lim, res>>

\* case 'search_p3_playlist_by_date', up to the await of the GET or, when the
\* arguments, the date or the limiter stop it, to the handler's return.
CallSearch(i, args, reads) ==
    /\ inv[i].pc = "idle"
    /\ LET parsed == SearchPlaylistSchemaParse(args)
           call == [Idle EXCEPT !.tool = "search", !.args = args]
       IN  IF ~parsed.ok
           THEN /\ inv' = [inv EXCEPT ![i] =
                      [call EXCEPT !.pc = "done",
                          !.result = ToolError("InputValidationFailed",
                                               parsed.issues)]]
                /\ UNCHANGED <<now, requests, admitted>>
           ELSE
           LET dates == ParseDateInput(parsed.input.date, reads[1])
               valid == [call EXCEPT !.input = parsed.input,
                                     !.resolvedAt = reads[1]]
           IN  IF ~dates.ok
               THEN /\ inv' = [inv EXCEPT ![i] =
                          [valid EXCEPT !.pc = "done",
                              !.result = ToolResult(SearchFailure(parsed.input,
                                  Err(dates.error, 0, <<>>), reads[2]))]]
                    /\ now' = reads[2]
                    /\ admitted' = Recent(admitted, reads[2])
                    /\ UNCHANGED requests
               ELSE
               LET check == CheckRateLimit(requests, reads[2], reads[3])
                   ok == AllowRequestResult(requests, reads[2])
                   resolved == [valid EXCEPT
                                   !.startDateTime = dates.startDateTime,
                                   !.endDateTime = dates.endDateTime,
                                   !.verdict = IF ok THEN "admitted"
                                               ELSE "rejected"]
               IN  /\ requests' = check.requests
                   /\ admitted' =
                         IF ok THEN Append(Recent(admitted, reads[2]), reads[2])
                         ELSE Recent(admitted, reads[4])
                   /\ IF check.thrown
                      THEN /\ inv' = [inv EXCEPT ![i] =
                                [resolved EXCEPT !.pc = "done",
                                    !.wait = GetWaitTime(requests', reads[3]),
                                    !.result = ToolResult(SearchFailure(
                                        parsed.input, check.error, reads[4]))]]
                           /\ now' = reads[4]
                      ELSE /\ inv' = [inv EXCEPT ![i] =
                                [resolved EXCEPT !.pc = "awaiting",
                                                 !.gets = 1]]
                           /\ now' = reads[2]
    /\ UNCHANGED <<lim, res>>

HttpSettles_Backoff(i, o, reads) ==
    /\ inv[i].pc = "awaiting"
    /\ LET fetched == MakeRequestResult(o)
           response ==
               IF inv[i].tool = "current" THEN CurrentAfterFetch(fetched, reads)
               ELSE SearchAfterFetch(inv[i].input, inv[i].startDateTime,
                                     inv[i].endDateTime, fetched, reads)
           timedOut == ~o.resolved /\ o.isAxiosError
                           /\ o.code \in {"ECONNABORTED", "ETIMEDOUT"}
       IN  IF timedOut
           THEN inv' = [inv EXCEPT ![i].pc = "backoff"]
           ELSE inv' = [inv EXCEPT ![i].pc = "done", ![i].outcome = o,
                                   ![i].result = ToolResult(response)]
    /\ now' = reads[Len(reads)]
    /\ admitted' = Recent(admitted, reads[Len(reads)])
    /\ UNCHANGED <<requests, lim, res>>

HttpSettles_Retries(i, o, reads) ==
    /\ inv[i].pc = "awaiting"
    /\ LET fetched == MakeRequestResult(o)
           response ==
               IF inv[i].tool = "current" THEN CurrentAfterFetch(fetched, reads)
               ELSE SearchAfterFetch(inv[i].input, inv[i].startDateTime,
                                     inv[i].endDateTime, fetched, reads)
       IN  IF ~fetched.ok /\ inv[i].gets < 2
           THEN inv' = [inv EXCEPT ![i].gets = @ + 1]
           ELSE inv' = [inv EXCEPT ![i].pc = "done", ![i].outcome = o,
                                   ![i].result = ToolResult(response)]
    /\ now' = reads[Len(reads)]
    /\ admitted' = Recent(admitted, reads[Len(reads)])
    /\ UNCHANGED <<requests, lim, res>>

HttpSettles_Refunds(i, o, reads) ==
    /\ inv[i].pc = "awaiting"
    /\ LET fetched == MakeRequestResult(o)
           response ==
               IF inv[i].tool = "current" THEN CurrentAfterFetch(fetched, reads)
               ELSE SearchAfterFetch(inv[i].input, inv[i].startDateTime,
                                     inv[i].endDateTime, fetched, reads)
       IN  /\ inv' = [inv EXCEPT ![i].pc = "done", ![i].outcome = o,
                                 ![i].result = ToolResult(response)]
           /\ requests' = IF ~fetched.ok /\ Len(requests) > 0
                          THEN SubSeq(requests, 1, Len(requests) - 1)
                          ELSE requests
    /\ now' = reads[Len(reads)]
    /\ admitted' = Recent(admitted, reads[Len(reads)])
    /\ UNCHANGED <<lim, res>>

\* The awaited GET of invocation i settles with outcome o; the invocation
\* runs on to the handler's return.
HttpSettles(i, o, reads) ==
    /\ inv[i].pc = "awaiting"
    /\ LET fetched == MakeRequestResult(o)
           response ==
               IF inv[i].tool = "current" THEN CurrentAfterFetch(fetched, reads)
               ELSE SearchAfterFetch(inv[i].input, inv[i].startDateTime,
                                     inv[i].endDateTime, fetched, reads)
       IN  inv' = [inv EXCEPT ![i].pc = "done", ![i].outcome = o,
                              ![i].result = ToolResult(response)]
    /\ now' = reads[Len(reads)]
    /\ admitted' = Recent(admitted, reads[Len(reads)])
    /\ UNCHANGED <<requests, lim, res>>

\* The handler's result has gone to the transport; the slot is free again.
Return(i) ==
    /\ inv[i].pc = "done"
    /\ inv' = [inv EXCEPT ![i] = Idle]
    /\ UNCHANGED <<now, requests, admitted, lim, res>>

----------------------------------------------------------------------------
(* The inputs the tools are tried on                                       *)

\* The clock readings of the tool runs: the origin, the last millisecond of
\* the first window (23:59:59.999 of day 0) and the start of the next one.
ToolInstants == {0, RATE_LIMIT_WINDOW_MS - 1, RATE_LIMIT_WINDOW_MS}

\* Timestamps of upstream records: two instants of day -1, 90.5 s apart.
T1 == TimeStr(DateTime(-1, 10 * 60 * 60 * 1000))
T2 == TimeStr(DateTime(-1, 10 * 60 * 60 * 1000 + 90500))

SongP == ApiSong(Str(<<"P">>), Str(<<"A", "b">>), T1, T2)
SongC == ApiSong(Str(<<"C">>), Str(<<"a", "B", "c">>), T1, T2)
SongN == ApiSong(Str(<<"N">>), Str(<<"D">>), T2, T1)
SongBare == ApiSong(Undef, Undef, TimeUndef, TimeUndef)
SongNumeric == ApiSong(Str(<<"X">>), Num(112), T1, T2)

\* Records whose stop is half a second after the start, equal to the start,
\* and whose start is no timestamp.
T1AndHalf == TimeStr(DateTime(-1, 10 * 60 * 60 * 1000 + 500))
SongShort == ApiSong(Str(<<"S">>), Str(<<"D">>), T1, T1AndHalf)
SongEqual == ApiSong(Str(<<"E">>), Str(<<"D">>), T1, T1)
SongGarbled == ApiSong(Str(<<"G">>), Str(<<"D">>), TimeStr(OtherText), T2)

\* What a node of the current-playlist tree is tried with, for its record r.
NodesOf(r) ==
    {NodeUndef, NodeOne(EmptyElement), NodeOne(r), NodeArray(<<r, SongBare>>),
     NodeArray(<<EmptyElement, r>>)}

CurrentTrees ==
    {Tree(TRUE, TRUE, c, p, n) :
        c \in NodesOf(SongC), p \in NodesOf(SongP), n \in NodesOf(SongN)}
        \cup {Tree(TRUE, TRUE, NodeOne(x), NodeUndef, NodeUndef) :
                 x \in {SongShort, SongEqual, SongGarbled}}

SearchTrees ==
    {Tree(TRUE, TRUE, node, NodeUndef, NodeUndef) :
        node \in {NodeUndef, NodeOne(SongP), NodeOne(SongBare),
                  NodeArray(<<SongP, SongC>>), NodeArray(<<SongN, SongP>>),
                  NodeArray(<<SongC, SongNumeric>>),
                  NodeArray(<<EmptyElement, SongC>>),
                  NodeArray(<<SongN, SongP, SongC>>),
                  NodeArray(<<SongShort, SongEqual>>),
                  NodeOne(SongGarbled)}}

BrokenTrees ==
    {Tree(FALSE, FALSE, NodeUndef, NodeUndef, NodeUndef),
     Tree(TRUE, FALSE, NodeUndef, NodeUndef, NodeUndef)}

\* The ways the GET fails: time-outs (with and without a response), a
\* non-2xx response, no response, an error that is not the client's, and a
\* body the parser throws on.
Failures ==
    {Rejected(TRUE, "ECONNABORTED", FALSE, 0, TRUE),
     Rejected(TRUE, "ETIMEDOUT", TRUE, 504, TRUE),
     Rejected(TRUE, "ERR_BAD_RESPONSE", TRUE, 503, TRUE),
     Rejected(TRUE, "ECONNREFUSED", FALSE, 0, TRUE),
     Rejected(TRUE, "ERR_INVALID_URL", FALSE, 0, FALSE),
     Rejected(FALSE, "", FALSE, 0, FALSE),
     Undecodable}

CurrentOutcomes ==
    Failures \cup {Decoded(t) : t \in BrokenTrees \cup CurrentTrees}

SearchOutcomes ==
    Failures \cup {Decoded(t) : t \in BrokenTrees \cup SearchTrees}

\* Arguments of the search tool: the accepted ones, and ones that fail the
\* schema in one field or in several.
GoodDates ==
    {DateStr(<<DateOnly(-1)>>), DateStr(<<DateOnly(-2), DateOnly(-1)>>)}
BadDates ==
    {DateStr(<<OtherText>>), DateStr(<<DateOnly(0)>>),
     DateStr(<<DateOnly(-91)>>), DateStr(<<DateOnly(-1), DateOnly(-2)>>)}
GoodFilters == {Undef, Str(<<>>), Str(<<"a", "B">>)}
GoodLimits == {Undef, Num(1), Num(2), Num(100)}
FailingDates == {DateUndef, DateNum, DateStr(<<EmptyText>>)}
FailingLimits ==
    {Num(0), Num(101), NumAndHalf(0), NumAndHalf(100), Num(-1), Str(<<"5">>)}

ValidSearchArgs ==
    {Args(d, a, l) : d \in GoodDates, a \in GoodFilters, l \in GoodLimits}
        \cup {Args(d, Undef, l) : d \in BadDates, l \in {Undef, Num(1)}}

InvalidSearchArgs ==
    {NoArgs}
        \cup {Args(d, Undef, Undef) : d \in FailingDates}
        \cup {Args(d, Undef, l) : d \in GoodDates \cup BadDates,
                                  l \in FailingLimits}
        \cup {Args(DateStr(<<DateOnly(-1)>>), Num(7), l) :
                 l \in {Undef, Num(1)}}
        \cup {Args(DateNum, Num(7), NumAndHalf(0)),
              Args(DateStr(<<EmptyText>>), Str(<<"a", "b">>), Num(101))}

SearchArgs == ValidSearchArgs \cup InvalidSearchArgs

CurrentArgs == {NoArgs, Args(DateUndef, Undef, Num(3))}

----------------------------------------------------------------------------
(* The server handling one call at a time, on every input                  *)

ToolSlots == {1}

InitTools ==
    /\ now = 0
    /\ requests = <<>>
    /\ admitted = <<>>
    /\ lim = NoCall
    /\ inv = [i \in ToolSlots |-> Idle]
    /\ res = NoRes

ToolsCallUnknown ==
    \E i \in ToolSlots, args \in CurrentArgs : CallUnknownTool(i, args)

ToolsCallCurrent ==
    \E i \in ToolSlots, reads \in ReadSeqs(ToolInstants, now, 3) :
        \E args \in CurrentArgs : CallCurrent(i, args, reads)

ToolsCallSearch ==
    \E i \in ToolSlots, reads \in ReadSeqs(ToolInstants, now, 4) :
        \E args \in SearchArgs : CallSearch(i, args, reads)

ToolsHttpSettlesCurrent ==
    \E i \in ToolSlots :
        /\ inv[i].pc = "awaiting" /\ inv[i].tool = "current"
        /\ \E o \in CurrentOutcomes :
              \E reads \in ReadSeqs(ToolInstants, now,
                                    CurrentReads(MakeRequestResult(o))) :
                  HttpSettles(i, o, reads)

ToolsHttpSettlesSearch ==
    \E i \in ToolSlots :
        /\ inv[i].pc = "awaiting" /\ inv[i].tool = "search"
        /\ \E o \in SearchOutcomes :
              \E reads \in ReadSeqs(ToolInstants, now,
                                    SearchReads(MakeRequestResult(o))) :
                  HttpSettles(i, o, reads)

ToolsReturn == \E i \in ToolSlots : Return(i)

NextTools ==
    \/ ToolsCallUnknown
    \/ ToolsCallCurrent
    \/ ToolsCallSearch
    \/ ToolsHttpSettlesCurrent
    \/ ToolsHttpSettlesSearch
    \/ ToolsReturn

SpecTools == InitTools /\ [][NextTools]_vars

----------------------------------------------------------------------------
(* The server with several invocations in flight                           *)

\* Invocations run on one thread and give way only at the await of the GET:
\* a call runs from the handler's entry to that await (or to its return) in
\* one step, and from the settling of the GET to its return in another.  All
\* of them use the one client of getApiClient() and so the one limiter.
Slots == {1, 2}

\* The clock readings of these runs: the origin and one window later.
ConcInstants == {0, RATE_LIMIT_WINDOW_MS}

ConcSearchArgs == {Args(DateStr(<<DateOnly(-1)>>), Undef, Undef)}

ConcOutcomes ==
    {Decoded(Tree(TRUE, TRUE, NodeOne(SongC), NodeUndef, NodeUndef)),
     Rejected(TRUE, "ECONNABORTED", FALSE, 0, TRUE)}

Init ==
    /\ now = 0
    /\ requests = <<>>
    /\ admitted = <<>>
    /\ lim = NoCall
    /\ inv = [i \in Slots |-> Idle]
    /\ res = NoRes

ConcCallCurrent ==
    \E i \in Slots, reads \in ReadSeqs(ConcInstants, now, 3) :
        CallCurrent(i, NoArgs, reads)

ConcCallSearch ==
    \E i \in Slots, reads \in ReadSeqs(ConcInstants, now, 4) :
        \E args \in ConcSearchArgs : CallSearch(i, args, reads)

\* The GET of invocation i settles: it resolves, is rejected, or is aborted
\* by the client's timeout of API_TIMEOUT_MS.
ConcHttpSettles(i) ==
    /\ inv[i].pc = "awaiting"
    /\ \E o \in ConcOutcomes :
          \E reads \in ReadSeqs(ConcInstants, now,
                                IF inv[i].tool = "current"
                                THEN CurrentReads(MakeRequestResult(o))
                                ELSE SearchReads(MakeRequestResult(o))) :
              HttpSettles(i, o, reads)

ConcReturn == \E i \in Slots : Return(i)

Next ==
    \/ ConcCallCurrent
    \/ ConcCallSearch
    \/ \E i \in Slots : ConcHttpSettles(i)
    \/ ConcReturn

\* Every GET settles: axios ends a request that has not completed after
\* API_TIMEOUT_MS.
Spec == Init /\ [][Next]_vars /\ \A i \in Slots : WF_vars(ConcHttpSettles(i))

----------------------------------------------------------------------------
(* The server while the upstream is down                                   *)

\* One call at a time, of either tool, and every GET fails in one of the ways
\* of Failures.
InitOutage ==
    /\ now = 0
    /\ requests = <<>>
    /\ admitted = <<>>
    /\ lim = NoCall
    /\ inv = [i \in ToolSlots |-> Idle]
    /\ res = NoRes

OutageCallCurrent ==
    \E i \in ToolSlots, reads \in ReadSeqs(ToolInstants, now, 3) :
        CallCurrent(i, NoArgs, reads)

OutageCallSearch ==
    \E i \in ToolSlots, reads \in ReadSeqs(ToolInstants, now, 4) :
        \E args \in ConcSearchArgs : CallSearch(i, args, reads)

OutageHttpFails ==
    \E i \in ToolSlots :
        /\ inv[i].pc = "awaiting"
        /\ \E o \in Failures :
              \E reads \in ReadSeqs(ToolInstants, now, 1) :
                  HttpSettles(i, o, reads)

OutageReturn == \E i \in ToolSlots : Return(i)

NextOutage ==
    \/ OutageCallCurrent
    \/ OutageCallSearch
    \/ OutageHttpFails
    \/ OutageReturn

SpecOutage == InitOutage /\ [][NextOutage]_vars

----------------------------------------------------------------------------
(* Claims on the rate limiter                                              *)

\* C1: with the default configuration (10 requests / 60000 ms), the number of
\* admitted allowRequest() calls whose instant t satisfies
\* now - 60000 < t <= now never exceeds 10.  The history holds exactly those
\* admissions, at every clock reading; the count over a window ending at any
\* other instant is at most the count at its latest admission instant.
C1_WindowNeverExceedsMax ==
    Cardinality({i \in DOMAIN admitted :
                    now - RATE_LIMIT_WINDOW_MS < admitted[i] /\ admitted[i] <= now})
        <= RATE_LIMIT_MAX_REQUESTS

\* C1 witness: the budget of one window is used up, a further call has just
\* been refused, and an admission older than the window has already expired.
C1_Witness ==
    /\ Len(admitted) = RATE_LIMIT_MAX_REQUESTS
    /\ lim.op = "allowRequest" /\ lim.ret = 0
    /\ admitted[1] > 0

----------------------------------------------------------------------------
(* Claims on the date resolver                                             *)

\* The piece that gives the end bound: the second piece of a range, the only
\* piece of a single date.
EndPiece(in) == IF Len(in) > 1 THEN in[2] ELSE in[1]

IsDatePiece(c) == c.kind \in {"date", "datetime"}

\* <<day, ms>> pairs in time order.
Later(x, y) == x[1] > y[1] \/ (x[1] = y[1] /\ x[2] > y[2])

\* C6: on every accepted input, start is 00:00:00.000 UTC of the day of the
\* first date and end is 23:59:59.999 UTC of the day of the last date (the
\* same date for a single date); so 'D to D' and 'D' resolve to the same pair.
C6_FullDayBounds ==
    res.called /\ res.out.ok =>
        /\ res.out.startDateTime =
              [valid |-> TRUE, day |-> res.input[1].day, ms |-> 0]
        /\ res.out.endDateTime =
              [valid |-> TRUE, day |-> EndPiece(res.input).day, ms |-> DayMs - 1]
        /\ Len(res.input) = 1 =>
              ParseDateInput(<<res.input[1], res.input[1]>>, res.at) = res.out
        /\ Len(res.input) = 2 /\ res.input[1] = res.input[2] =>
              ParseDateInput(<<res.input[1]>>, res.at) = res.out

\* C6 witness: an accepted single date given with a time of day, which the
\* resolver widens to the whole day.
C6_Witness ==
    /\ res.called /\ res.out.ok
    /\ Len(res.input) = 1 /\ res.input[1].kind = "datetime"
    /\ res.input[1].ms # 0

\* The outcome the claimed order of checks gives for input in at clock
\* reading t: the first failing check, or "" when none fails.
FirstFailingCheck(in, t) ==
    LET n == <<(OriginMs + t) \div DayMs, (OriginMs + t) % DayMs>>
        s == <<in[1].day, 0>>
        e == <<EndPiece(in).day, DayMs - 1>>
    IN  IF ~IsDatePiece(in[1]) \/ ~IsDatePiece(EndPiece(in))
        THEN "InvalidDateFormat"
        ELSE IF Later(s, n) \/ Later(e, n) THEN "FutureDateRejected"
        ELSE IF Later(<<n[1] - 90, n[2]>>, s) THEN "DateTooOld"
        ELSE IF Later(s, e) THEN "RangeOrderInvalid"
        ELSE ""

----------------------------------------------------------------------------
(* Claims on the tools and the handler                                     *)

\* The arguments the search tool's schema accepts, and the fields that fail
\* it, as the schema is documented: date a non-empty string, artist_filter a
\* string when given, limit an integer from 1 to 100 when given.
LimitAccepted(l) ==
    l.t = "undefined" \/ (l.t = "number" /\ ~l.half /\ l.n >= 1 /\ l.n <= 100)
DateAccepted(d) == d.t = "string" /\ d.s # <<EmptyText>>
FilterAccepted(a) == a.t \in {"undefined", "string"}

SchemaValid(tool, args) ==
    \/ tool = "current"
    \/ /\ tool = "search"
       /\ DateAccepted(args.date)
       /\ FilterAccepted(args.artist_filter)
       /\ LimitAccepted(args.limit)

OffendingFields(args) ==
    (IF DateAccepted(args.date) THEN {} ELSE {"date"})
        \cup (IF FilterAccepted(args.artist_filter) THEN {}
              ELSE {"artist_filter"})
        \cup (IF LimitAccepted(args.limit) THEN {} ELSE {"limit"})

Finished(i) == inv[i].pc = "done"

Response(i) == inv[i].result.response

\* The GET of invocation i was issued and has settled.
Settled(i) == Finished(i) /\ inv[i].gets = 1

TimedOut(o) ==
    ~o.resolved /\ o.isAxiosError /\ o.code \in {"ECONNABORTED", "ETIMEDOUT"}

\* The GET gave a decoded tree with a playlist node.
HasPlaylist(i) ==
    /\ Settled(i)
    /\ inv[i].outcome.resolved /\ ~inv[i].outcome.parseThrows
    /\ inv[i].outcome.tree.sr /\ inv[i].outcome.tree.playlist

\* C2: the rate limiter is consulted before any network I/O: a GET is issued
\* only by an invocation the limiter admitted, and an invocation it refused
\* ends at once with the rate-limit error carrying the wait seconds that
\* getWaitTime gave (0 to 60), having issued no GET.
C2_RefusedBeforeNetwork ==
    \A i \in DOMAIN inv :
        /\ inv[i].gets > 0 => inv[i].verdict = "admitted"
        /\ inv[i].verdict = "rejected" =>
              /\ Finished(i)
              /\ inv[i].gets = 0
              /\ inv[i].wait \in 0..60
              /\ Response(i).songs = <<>>
              /\ Response(i).errors =
                    [present |-> TRUE,
                     v |-> <<[kind |-> "RateLimited", n |-> inv[i].wait,
                              text |-> <<>>]>>]

\* C2 witness: each tool has been refused by the limiter, the search with a
\* whole minute to wait.
C2_Witness ==
    \E i \in DOMAIN inv :
        /\ Finished(i) /\ inv[i].verdict = "rejected"
        /\ inv[i].tool = "search" /\ inv[i].wait = 60

\* A failure of invocation i inside an orchestrator: in the date resolution,
\* at the rate limiter, in the fetch, for a missing playlist node, or in the
\* normalization (the artist filter applied to an artist that is no string).
OrchestratorFailed(i) ==
    /\ Finished(i)
    /\ inv[i].tool \in {"current", "search"}
    /\ SchemaValid(inv[i].tool, inv[i].args)
    /\ \/ inv[i].tool = "search"
          /\ FirstFailingCheck(inv[i].args.date.s, inv[i].resolvedAt) # ""
       \/ inv[i].verdict = "rejected"
       \/ Settled(i) /\ (~inv[i].outcome.resolved \/ inv[i].outcome.parseThrows)
       \/ Settled(i) /\ ~HasPlaylist(i)
       \/ /\ HasPlaylist(i) /\ inv[i].tool = "search"
          /\ Truthy(inv[i].args.artist_filter)
          /\ \E x \in Range(NormalizeToArray(inv[i].outcome.tree.song)) :
                x.artist.t = "number" /\ Truthy(x.artist)

\* C3: no exception escapes an orchestrator: every failure inside it gives a
\* returned Playlist Response with no songs, its metadata, and exactly one
\* error string, which for an upstream time-out is the time-out message.
C3_FailuresBecomeResponses ==
    \A i \in DOMAIN inv :
        OrchestratorFailed(i) =>
            /\ ~inv[i].result.isError
            /\ Response(i).songs = <<>>
            /\ Response(i).metadata.channel = "P3"
            /\ Response(i).metadata.channelId = P3_CHANNEL_ID
            /\ Response(i).metadata.query.type =
                  (IF inv[i].tool = "current" THEN "current" ELSE "date-range")
            /\ Response(i).errors.present
            /\ Len(Response(i).errors.v) = 1
            /\ Settled(i) /\ TimedOut(inv[i].outcome) =>
                  Response(i).errors.v[1].kind = "Timeout"

\* C3 witness: a search whose GET timed out has returned.
C3_Witness ==
    \E i \in DOMAIN inv :
        /\ Settled(i) /\ inv[i].tool = "search"
        /\ TimedOut(inv[i].outcome)
        /\ Response(i).errors.v[1].kind = "Timeout"

\* C4: a call of a known tool with arguments its schema accepts returns a
\* Playlist Response and never the isError result, whatever the limiter and
\* the upstream do; the isError result is given exactly for an unknown tool
\* name and for arguments failing the schema.
C4_IsErrorOnlyForBadCalls ==
    \A i \in DOMAIN inv :
        Finished(i) =>
            /\ inv[i].result.isError <=>
                  (inv[i].tool \notin {"current", "search"}
                      \/ ~SchemaValid(inv[i].tool, inv[i].args))
            /\ ~inv[i].result.isError =>
                  /\ Response(i).metadata.channel = "P3"
                  /\ Response(i).metadata.query.type =
                        (IF inv[i].tool = "current" THEN "current"
                         ELSE "date-range")

\* C4 witness: the current-playlist tool, called with arguments it ignores,
\* has returned a Playlist Response although its fetch failed.
C4_Witness ==
    \E i \in DOMAIN inv :
        /\ Settled(i) /\ inv[i].tool = "current" /\ inv[i].args.given
        /\ ~inv[i].outcome.resolved
        /\ ~inv[i].result.isError

\* C5: search arguments that fail the schema are rejected with the input
\* validation error naming every offending field, before the date resolver
\* (no clock reading), the rate limiter (state unchanged) and the network
\* (no GET) are reached; an omitted limit of accepted arguments becomes 25.
C5_SchemaFailuresStopEarly ==
    [][\A i \in DOMAIN inv :
          inv[i].pc = "idle" /\ inv'[i].pc # "idle" /\ inv'[i].tool = "search" =>
              /\ ~SchemaValid("search", inv'[i].args) =>
                    /\ inv'[i].pc = "done"
                    /\ inv'[i].result.isError
                    /\ inv'[i].result.error = "InputValidationFailed"
                    /\ {x.path : x \in Range(inv'[i].result.items)} =
                          OffendingFields(inv'[i].args)
                    /\ inv'[i].gets = 0 /\ inv'[i].verdict = "none"
                    /\ requests' = requests
                    /\ now' = now
              /\ SchemaValid("search", inv'[i].args)
                    /\ inv'[i].args.limit.t = "undefined" =>
                    inv'[i].input.limit = 25
      ]_vars

\* C5 witness: with admissions recorded in the limiter, a search whose three
\* arguments all fail the schema has been rejected.
C5_Witness ==
    \E i \in DOMAIN inv :
        /\ Finished(i) /\ inv[i].tool = "search"
        /\ OffendingFields(inv[i].args) = {"date", "artist_filter", "limit"}
        /\ inv[i].result.isError
        /\ requests # <<>>

Populated(node) ==
    node.t # "undefined" /\ Len(node.items) > 0 /\ ~node.items[1].empty
FirstTitle(node) ==
    IF Populated(node) THEN <<node.items[1].title>> ELSE <<>>

\* C9: on a successful fetch the current-playlist output holds at most one
\* song of each of the previous, current and next nodes, the first record of
\* the node, in the order previous, current, next, absent nodes being left
\* out: 0 to 3 songs.
C9_PreviousCurrentNext ==
    \A i \in DOMAIN inv :
        HasPlaylist(i) /\ inv[i].tool = "current" =>
            LET tree == inv[i].outcome.tree
                songs == Response(i).songs
            IN  /\ Len(songs) <= 3
                /\ [k \in DOMAIN songs |-> songs[k].title] =
                      FirstTitle(tree.previoussong) \o FirstTitle(tree.song)
                          \o FirstTitle(tree.nextsong)

\* C9 witness: the previous node is absent, the current node holds several
\* records and the next node one; the output is the first current record and
\* then the next one.
C9_Witness ==
    \E i \in DOMAIN inv :
        /\ HasPlaylist(i) /\ inv[i].tool = "current"
        /\ inv[i].outcome.tree.previoussong.t = "undefined"
        /\ inv[i].outcome.tree.song.t = "array"
        /\ Populated(inv[i].outcome.tree.song)
        /\ Populated(inv[i].outcome.tree.nextsong)
        /\ Len(Response(i).songs) = 2

NodesOfTree(tree) == <<tree.previoussong, tree.song, tree.nextsong>>

\* C10: when the fetch succeeds with a playlist node and all three nodes are
\* absent, the response is returned with no songs and exactly the warning
\* 'No songs found in the current playlist'; when at least one node holds a
\* record, the response has as many songs as there are such nodes and no
\* errors field.
C10_EmptyPlaylistWarning ==
    \A i \in DOMAIN inv :
        HasPlaylist(i) /\ inv[i].tool = "current" =>
            LET nodes == NodesOfTree(inv[i].outcome.tree)
                populated == {k \in 1..3 : Populated(nodes[k])}
            IN  /\ ~inv[i].result.isError
                /\ (\A k \in 1..3 : nodes[k].t = "undefined") =>
                      /\ Response(i).songs = <<>>
                      /\ Response(i).errors =
                            [present |-> TRUE,
                             v |-> <<[kind |-> "NoSongsInCurrentPlaylist",
                                      n |-> 0, text |-> <<>>]>>]
                /\ populated # {} =>
                      /\ Len(Response(i).songs) = Cardinality(populated)
                      /\ ~Response(i).errors.present

\* C10 witness: only the current node holds a record, and the response has
\* one song and no errors field.
C10_Witness ==
    \E i \in DOMAIN inv :
        /\ HasPlaylist(i) /\ inv[i].tool = "current"
        /\ Populated(inv[i].outcome.tree.song)
        /\ inv[i].outcome.tree.previoussong.t = "undefined"
        /\ inv[i].outcome.tree.nextsong.t = "undefined"
        /\ Len(Response(i).songs) = 1
        /\ ~Response(i).errors.present

----------------------------------------------------------------------------
(* Claims on the search pipeline: filter, note, limit                      *)

\* Two characters that are the same letter, whatever their case.
SameLetter(x, y) ==
    \/ x = y
    \/ x \in UpperCase /\ LowerOf[x] = y
    \/ y \in UpperCase /\ LowerOf[y] = x
    \/ x \in UpperCase /\ y \in UpperCase /\ LowerOf[x] = LowerOf[y]

\* part occurs in text as a substring, case ignored.
ContainsIgnoringCase(text, part) ==
    \E k \in 0..(Len(text) - Len(part)) :
        \A j \in 1..Len(part) : SameLetter(text[k + j], part[j])

\* The records the upstream gave to search invocation i, and the artist each
\* song of the output carries for them.
Upstream(i) ==
    LET node == inv[i].outcome.tree.song
    IN  IF node.t = "undefined" THEN <<>>
        ELSE IF node.t = "single" /\ node.items[1].empty THEN <<>>
        ELSE node.items

ArtistOf(x) == IF Truthy(x.artist) THEN x.artist ELSE Str(UnknownArtist)

\* Search invocation i got a playlist whose artists are all strings.
SearchDelivered(i) ==
    /\ HasPlaylist(i) /\ inv[i].tool = "search"
    /\ \A x \in Range(Upstream(i)) : ArtistOf(x).t = "string"

\* The positions (from 1) of the upstream records that the artist filter of
\* invocation i keeps, in upstream order: all of them without a filter.
KeptPositions(i) ==
    LET up == Upstream(i)
        f == inv[i].input.artist_filter
    IN  SelectSeq([k \in 1..Len(up) |-> k],
                  LAMBDA k : f.t = "string" =>
                                 ContainsIgnoringCase(ArtistOf(up[k]).s, f.s))

\* The positions of the upstream records the songs of the response stand for.
ReturnedPositions(i) ==
    [k \in DOMAIN Response(i).songs |-> Response(i).songs[k].id.v + 1]

C12_FilterNote ==
    \A i \in DOMAIN inv :
        SearchDelivered(i) =>
            LET q == Response(i).metadata.query
                emptied == /\ inv[i].input.artist_filter.t = "string"
                           /\ Len(Upstream(i)) > 0
                           /\ KeptPositions(i) = <<>>
            IN  /\ ~inv[i].result.isError
                /\ q.startDate.present /\ q.endDate.present
                /\ q.startDate.v = inv[i].startDateTime
                /\ q.endDate.v = inv[i].endDateTime
                /\ emptied =>
                      /\ Response(i).songs = <<>>
                      /\ Response(i).errors =
                            [present |-> TRUE,
                             v |-> <<[kind |-> "NoSongsMatchingFilter",
                                      n |-> Len(Upstream(i)),
                                      text |-> inv[i].input.artist_filter.s]>>]
                /\ ~emptied => ~Response(i).errors.present

\* C12 witness: the filter has emptied a list of two songs.
C12_Witness ==
    \E i \in DOMAIN inv :
        /\ SearchDelivered(i)
        /\ Len(Upstream(i)) = 2
        /\ Response(i).songs = <<>>
        /\ Response(i).errors.present
        /\ Response(i).errors.v[1].n = 2

\* The smaller of two numbers.
Min(a, b) == IF a <= b THEN a ELSE b

\* C13: the songs returned are the first min(limit, n) of the n songs the
\* artist filter keeps, in upstream order; the filter comes before the cut,
\* and no response has more than limit songs.
C13_LimitKeepsFirst ==
    \A i \in DOMAIN inv :
        SearchDelivered(i) =>
            /\ Len(Response(i).songs) <= inv[i].input.limit
            /\ ReturnedPositions(i) =
                  SubSeq(KeptPositions(i), 1,
                         Min(inv[i].input.limit, Len(KeptPositions(i))))

\* C13 witness: of three records the filter keeps the last two and the limit
\* of 1 returns the first of these, which is not the first upstream record.
C13_Witness ==
    \E i \in DOMAIN inv :
        /\ SearchDelivered(i)
        /\ inv[i].input.limit = 1
        /\ KeptPositions(i) = <<2, 3>>
        /\ ReturnedPositions(i) = <<2>>

----------------------------------------------------------------------------
(* Claims on the normalizer, the duration and the fetch failures           *)

\* C14: normalizeToArray gives the empty sequence for an absent node, a
\* one-element sequence holding the record for a single record, and a
\* sequence of N records unchanged; applied to its own result it changes
\* nothing.  Stated of every node of a playlist a tool has processed.
C14_NormalizerCoercion ==
    \A i \in DOMAIN inv :
        HasPlaylist(i) =>
            \A node \in Range(NodesOfTree(inv[i].outcome.tree)) :
                /\ node.t = "undefined" => NormalizeToArray(node) = <<>>
                /\ node.t = "single" /\ ~node.items[1].empty =>
                      NormalizeToArray(node) = <<node.items[1]>>
                /\ node.t = "array" => NormalizeToArray(node) = node.items
                /\ NormalizeToArray(
                       [t |-> "array", items |-> NormalizeToArray(node)])
                      = NormalizeToArray(node)

\* C14 witness: a search without a filter over a node of three records has
\* returned three songs.
C14_Witness ==
    \E i \in DOMAIN inv :
        /\ HasPlaylist(i) /\ inv[i].tool = "search"
        /\ inv[i].outcome.tree.song.t = "array"
        /\ Len(inv[i].outcome.tree.song.items) = 3
        /\ Len(Response(i).songs) = 3

\* The instant a timestamp text of a song stands for, as a pair of day and
\* millisecond, when it is one.
IsInstant(c) == c.kind \in {"date", "datetime"}
MsFromTo(a, b) == (b.day - a.day) * DayMs + (b.ms - a.ms)

\* C15: a song's duration is present exactly when both its timestamps are
\* valid instants and stop is strictly after start, and is then the whole
\* seconds floor((stop - start) / 1000); with stop <= start or a timestamp
\* that is none it is absent.  Stated of every song either tool returns.
C15_DurationWholeSeconds ==
    \A i \in DOMAIN inv :
        HasPlaylist(i) =>
            \A k \in DOMAIN Response(i).songs :
                LET song == Response(i).songs[k]
                    a == song.startTimeUTC
                    b == song.stopTimeUTC
                    measurable == /\ IsInstant(a) /\ IsInstant(b)
                                  /\ MsFromTo(a, b) > 0
                IN  /\ song.duration.present <=> measurable
                    /\ measurable =>
                          /\ song.duration.v * 1000 <= MsFromTo(a, b)
                          /\ MsFromTo(a, b) < (song.duration.v + 1) * 1000
                          /\ song.duration.v >= 0

\* C15 witness: of two songs returned, one stops half a second after its
\* start and has the duration 0, the other stops at its start and has none.
C15_Witness ==
    \E i \in DOMAIN inv :
        /\ HasPlaylist(i) /\ Len(Response(i).songs) = 2
        /\ MsFromTo(Response(i).songs[1].startTimeUTC,
                    Response(i).songs[1].stopTimeUTC) = 500
        /\ Response(i).songs[1].duration = [present |-> TRUE, v |-> 0]
        /\ Response(i).songs[2].startTimeUTC = Response(i).songs[2].stopTimeUTC
        /\ ~Response(i).songs[2].duration.present

\* The kind of a failed attempt o, in the documented order.
FailureKind(o) ==
    IF ~o.resolved /\ o.isAxiosError /\ o.code \in {"ECONNABORTED", "ETIMEDOUT"}
    THEN "Timeout"
    ELSE IF ~o.resolved /\ o.isAxiosError /\ o.hasResponse THEN "UpstreamError"
    ELSE IF ~o.resolved /\ o.isAxiosError /\ o.hasRequest THEN "Unreachable"
    ELSE "Unknown"

\* C16: a failed attempt of an admitted request is reported as exactly one
\* of Timeout, UpstreamError with the status code, Unreachable and Unknown,
\* decided in this order; a body that does not decode and an exception that
\* is not the transport's are Unknown.
C16_FailureTaxonomy ==
    \A i \in DOMAIN inv :
        Settled(i) /\ (~inv[i].outcome.resolved \/ inv[i].outcome.parseThrows) =>
            /\ inv[i].verdict = "admitted"
            /\ Response(i).errors.present
            /\ Len(Response(i).errors.v) = 1
            /\ Response(i).errors.v[1].kind = FailureKind(inv[i].outcome)
            /\ Response(i).errors.v[1].n =
                  (IF FailureKind(inv[i].outcome) = "UpstreamError"
                   THEN inv[i].outcome.status ELSE 0)
            /\ inv[i].outcome.parseThrows \/ ~inv[i].outcome.isAxiosError =>
                  Response(i).errors.v[1].kind = "Unknown"

\* C16 witness: an attempt that timed out after a 504 response had arrived
\* is reported as a time-out.
C16_Witness ==
    \E i \in DOMAIN inv :
        /\ Settled(i)
        /\ inv[i].outcome.code = "ETIMEDOUT" /\ inv[i].outcome.hasResponse
        /\ Response(i).errors.v[1].kind = "Timeout"

----------------------------------------------------------------------------
(* Claims on retries and on the limiter's state                            *)

\* C17: an invocation issues at most one GET: one when the limiter admitted
\* it and none otherwise; when the GET has settled the invocation ends in
\* that step with its result, a failure included, and sends nothing again.
C17_NoRetries ==
    [][\A i \in DOMAIN inv :
          /\ inv'[i].gets \in {0, 1}
          /\ inv'[i].pc \in {"awaiting", "done"} =>
                (inv'[i].gets = 1 <=> inv'[i].verdict = "admitted")
          /\ inv[i].pc = "awaiting" /\ inv'[i] # inv[i] =>
                /\ inv'[i].pc = "done"
                /\ inv'[i].gets = 1
                /\ requests' = requests
                /\ (~inv'[i].outcome.resolved \/ inv'[i].outcome.parseThrows) =>
                      /\ inv'[i].result.response.songs = <<>>
                      /\ inv'[i].result.response.errors.present
      ]_vars

\* C17 witness: an admitted invocation whose GET was refused by the network
\* has ended with its error, one GET issued.
C17_Witness ==
    \E i \in DOMAIN inv :
        /\ Finished(i) /\ inv[i].verdict = "admitted" /\ inv[i].gets = 1
        /\ ~inv[i].outcome.resolved /\ inv[i].outcome.code = "ECONNREFUSED"
        /\ Response(i).errors.present

\* The stored timestamps that are inside the window at instant t.
Unexpired(reqs, t) ==
    SelectSeq(reqs, LAMBDA timestamp : timestamp > t - RATE_LIMIT_WINDOW_MS)

\* C18: after allowRequest() has returned false the stored timestamps are
\* what they were before the call; after it has returned true they are the
\* un-expired ones of before followed by the instant of the call.
C18_AllowRequestEffect ==
    lim.op = "allowRequest" =>
        IF lim.ret = 0
        THEN requests = lim.before
        ELSE requests = Append(Unexpired(lim.before, lim.at), lim.at)

\* C18 witness: allowRequest() has returned false, a full window being stored.
C18_Witness ==
    /\ lim.op = "allowRequest" /\ lim.ret = 0
    /\ Len(requests) = RATE_LIMIT_MAX_REQUESTS

\* C19: the stored timestamps are never more than maxRequests, so those newer
\* than now - windowMs are not either; only allowRequest() changes them, and
\* getWaitTime() leaves expired ones where they are.
C19_LimiterStateBound ==
    [][/\ Len(requests') <= RATE_LIMIT_MAX_REQUESTS
       /\ Len(Unexpired(requests', now')) <= RATE_LIMIT_MAX_REQUESTS
       /\ lim'.op = "getWaitTime" => requests' = requests
       /\ requests' # requests => lim'.op = "allowRequest"
      ]_vars

\* C19 witness: getWaitTime() has been called with an expired timestamp
\* stored, and the timestamp is still there.
C19_Witness ==
    /\ lim.op = "getWaitTime"
    /\ \E k \in DOMAIN requests : now - requests[k] >= RATE_LIMIT_WINDOW_MS

\* The oldest of the stored timestamps.
Oldest(reqs) == CHOOSE m \in Range(reqs) : \A x \in Range(reqs) : m <= x

\* C20: getWaitTime() returns an integer >= 0: 0 with nothing stored, else
\* max(0, ceil((oldest + windowMs - now) / 1000)); called after a refusal it
\* is not less than the time until the oldest timestamp leaves the window
\* and less than a second more, and lies in 1..60 when the clock has not
\* moved since the refusal.
C20_WaitTimeValue ==
    [][lim'.op = "getWaitTime" =>
          LET r == lim'.ret
              left == IF requests = <<>> THEN 0
                      ELSE Oldest(requests) + RATE_LIMIT_WINDOW_MS - lim'.at
          IN  /\ r \in Nat
              /\ requests = <<>> => r = 0
              /\ left <= 0 => r = 0
              /\ left > 0 => (r - 1) * 1000 < left /\ left <= r * 1000
              /\ lim.op = "allowRequest" /\ lim.ret = 0 =>
                    /\ requests # <<>>
                    /\ r * 1000 >= left
                    /\ left > 0 => r * 1000 - left < 1000
                    /\ lim'.at = lim.at => r \in 1..60
      ]_vars

\* C20 witness: with a full window stored since the origin, getWaitTime() at
\* 1.5 s has returned 59 for the 58.5 s that are left.
C20_Witness ==
    /\ lim.op = "getWaitTime"
    /\ Len(lim.before) = RATE_LIMIT_MAX_REQUESTS
    /\ Oldest(lim.before) + RATE_LIMIT_WINDOW_MS - lim.at = 58500
    /\ lim.ret = 59

----------------------------------------------------------------------------
(* Claims on the advertised wait                                           *)

\* C21, as amended: when allowRequest() has returned false and getWaitTime()
\* has then returned w at its own clock reading u, then, with no admission in
\* between, allowRequest() at any instant >= u + 1000 * w returns true; and
\* an allowRequest() called when every stored timestamp is a window old or
\* older returns true and leaves the whole budget but this one request.
C21_WaitFromAdvice ==
    [][lim'.op = "allowRequest" =>
          /\ lim.advice.given
                /\ lim'.at >= lim.advice.askedAt + 1000 * lim.advice.wait =>
                lim'.ret = 1
          /\ (\A k \in DOMAIN requests :
                  lim'.at - requests[k] >= RATE_LIMIT_WINDOW_MS) =>
                lim'.ret = 1 /\ requests' = <<lim'.at>>
      ]_vars

\* C21 witness: a wait was given at a clock reading later than the refusal,
\* with a full window stored, and the allowRequest() called when it was over
\* has returned true.
C21_Witness ==
    /\ lim.op = "allowRequest" /\ lim.ret = 1
    /\ Len(lim.before) = RATE_LIMIT_MAX_REQUESTS
    /\ ~lim.advice.given /\ lim.advice.wait >= 1
    /\ lim.advice.refusedAt < lim.advice.askedAt
    /\ lim.at >= lim.advice.askedAt + 1000 * lim.advice.wait

\* C21 as stated: the wait counted from the instant t of the refusal, not
\* from the clock reading of getWaitTime().
C21_WaitFromRefusal ==
    [][lim'.op = "allowRequest" =>
          /\ lim.advice.given
                /\ lim'.at >= lim.advice.refusedAt + 1000 * lim.advice.wait =>
                lim'.ret = 1
          /\ (\A k \in DOMAIN requests :
                  lim'.at - requests[k] >= RATE_LIMIT_WINDOW_MS) =>
                lim'.ret = 1 /\ requests' = <<lim'.at>>
      ]_vars

----------------------------------------------------------------------------
(* Claims on invocations in flight together                                *)

\* The invocations that issue their GET in the step.
NewGets == {i \in DOMAIN inv : inv[i].gets = 0 /\ inv'[i].gets = 1}

\* C22: with several invocations of the two tools in flight, every step is
\* one invocation's; a step that issues a GET has found fewer than 10
\* un-expired timestamps in the one limiter and has recorded its own, no
\* other invocation's step coming in between, so at most one invocation takes
\* a free slot; and the GETs of both tools together issued in any 60 seconds
\* are at most 10.
C22_OneLimiterForAll ==
    [][/\ Cardinality({i \in DOMAIN inv : inv'[i] # inv[i]}) <= 1
       /\ Cardinality(NewGets) <= 1
       /\ NewGets # {} =>
             /\ Len(Unexpired(requests, now')) < RATE_LIMIT_MAX_REQUESTS
             /\ requests' = Append(Unexpired(requests, now'), now')
       /\ NewGets = {} => requests' = requests
       /\ Len(Unexpired(admitted', now')) <= RATE_LIMIT_MAX_REQUESTS
      ]_vars

\* C22 witness: one invocation has taken the last free slot and awaits its
\* GET, and the other, of the other tool, called at the same clock reading,
\* has been refused.
C22_Witness ==
    \E i, j \in DOMAIN inv :
        /\ inv[i].pc = "awaiting" /\ inv[i].gets = 1
        /\ inv[j].pc = "done" /\ inv[j].verdict = "rejected" /\ inv[j].gets = 0
        /\ inv[i].tool # inv[j].tool
        /\ Len(requests) = RATE_LIMIT_MAX_REQUESTS
        /\ requests[Len(requests)] = now

\* C23: an invocation waits only at its GET, and the GET settling (done,
\* failed or timed out) ends it in that step with one response, for a
\* time-out the time-out error, nothing being sent again; so every
\* invocation that waits eventually returns.
C23_EveryInvocationReturns ==
    /\ \A i \in Slots : (inv[i].pc = "awaiting") ~> (inv[i].pc = "done")
    /\ [](\A i \in Slots :
             /\ inv[i].pc \in {"idle", "awaiting", "done"}
             /\ inv[i].pc = "awaiting" =>
                   inv[i].gets = 1 /\ inv[i].verdict = "admitted")
    /\ [][\A i \in Slots :
             inv[i].pc = "awaiting" /\ inv'[i] # inv[i] =>
                 /\ inv'[i].pc = "done"
                 /\ inv'[i].gets = 1
                 /\ TimedOut(inv'[i].outcome) =>
                       /\ ~inv'[i].result.isError
                       /\ inv'[i].result.response.songs = <<>>
                       /\ inv'[i].result.response.errors =
                             [present |-> TRUE,
                              v |-> <<[kind |-> "Timeout", n |-> 0,
                                       text |-> <<>>]>>]
         ]_vars

\* C23 witness: while another invocation still awaits its GET, one whose GET
\* timed out has ended with the time-out error.
C23_Witness ==
    \E i, j \in DOMAIN inv :
        /\ inv[j].pc = "awaiting"
        /\ Settled(i) /\ TimedOut(inv[i].outcome)
        /\ Response(i).errors.v[1].kind = "Timeout"

----------------------------------------------------------------------------
(* Claims on the fallback time and the synthetic ids                       *)

\* The upstream records the songs of invocation i's response stand for, in
\* the order of the songs.
RecordsReturned(i) ==
    IF inv[i].tool = "search"
    THEN [k \in DOMAIN Response(i).songs |->
             Upstream(i)[Response(i).songs[k].id.v + 1]]
    ELSE LET first(node) == IF Populated(node) THEN <<node.items[1]>> ELSE <<>>
         IN  first(inv[i].outcome.tree.previoussong)
                 \o first(inv[i].outcome.tree.song)
                 \o first(inv[i].outcome.tree.nextsong)

\* Invocation i has returned songs made of upstream records.
SongsReturned(i) ==
    /\ HasPlaylist(i) /\ ~inv[i].result.isError
    /\ inv[i].tool = "search" => SearchDelivered(i)

\* C24: in both tools a record that lacks a timestamp gets the query's
\* execution time, the value of metadata.timestamp, in its place, the same
\* for start and stop; a record that lacks both has start equal to stop and
\* no duration.
C24_FallbackIsQueryTime ==
    \A i \in DOMAIN inv :
        SongsReturned(i) =>
            \A k \in DOMAIN Response(i).songs :
                LET song == Response(i).songs[k]
                    record == RecordsReturned(i)[k]
                    noStart == ~TimeTruthy(record.starttimeutc)
                    noStop == ~TimeTruthy(record.stoptimeutc)
                IN  /\ noStart =>
                          song.startTimeUTC = Response(i).metadata.timestamp
                    /\ noStop =>
                          song.stopTimeUTC = Response(i).metadata.timestamp
                    /\ noStart /\ noStop =>
                          /\ song.startTimeUTC = song.stopTimeUTC
                          /\ ~song.duration.present

\* C25: every song of a search response carries the id made of the zero-based
\* position its record has in the normalized upstream sequence, given before
\* the filter and the limit act: the ids are those of the records the filter
\* keeps, cut to the limit, hence distinct and strictly increasing, and not
\* contiguous from 0 when the filter drops a record; a song of the
\* current-playlist tool has no id.
C25_IdsArePositions ==
    \A i \in DOMAIN inv :
        /\ SearchDelivered(i) /\ ~inv[i].result.isError =>
              LET songs == Response(i).songs
                  up == Upstream(i)
                  kept == KeptPositions(i)
              IN  /\ \A k \in DOMAIN songs :
                        /\ songs[k].id.present
                        /\ songs[k].id.v \in 0..(Len(up) - 1)
                        /\ songs[k].title =
                              OrElse(up[songs[k].id.v + 1].title,
                                     Str(UnknownTitle))
                        /\ songs[k].artist = ArtistOf(up[songs[k].id.v + 1])
                        /\ songs[k].composer = up[songs[k].id.v + 1].composer
                  /\ \A k, m \in DOMAIN songs :
                        k < m => songs[k].id.v < songs[m].id.v
                  /\ Len(songs) = Min(Len(kept), inv[i].input.limit)
                  /\ \A k \in DOMAIN songs : songs[k].id.v = kept[k] - 1
        /\ HasPlaylist(i) /\ inv[i].tool = "current" =>
              \A k \in DOMAIN Response(i).songs :
                  ~Response(i).songs[k].id.present

\* C25 witness: of three upstream records the filter drops the first and the
\* limit of 1 the third, and the one song returned has id 1, not 0.
C25_Witness ==
    \E i \in DOMAIN inv :
        /\ SearchDelivered(i) /\ ~inv[i].result.isError
        /\ Len(Upstream(i)) = 3
        /\ KeptPositions(i) = <<2, 3>>
        /\ inv[i].input.limit = 1
        /\ Len(Response(i).songs) = 1
        /\ Response(i).songs[1].id = Some(1)

----------------------------------------------------------------------------
(* Claims on the errors field and on the limiter's budget                  *)

\* C26: in every Playlist Response of either tool the errors field is absent
\* or a non-empty list, and whenever it is present the songs list is empty.
C26_ErrorsExcludeSongs ==
    \A i \in DOMAIN inv :
        Finished(i) /\ ~inv[i].result.isError =>
            /\ Response(i).errors.present => Response(i).errors.v # <<>>
            /\ Response(i).errors.present => Response(i).songs = <<>>
            /\ Response(i).songs # <<>> => ~Response(i).errors.present

\* C26 witness: upstream records were fetched and parsed, the artist filter
\* dropped them all, and the response has the note and no songs.
C26_Witness ==
    \E i \in DOMAIN inv :
        /\ SearchDelivered(i) /\ ~inv[i].result.isError
        /\ Len(Upstream(i)) >= 1
        /\ inv[i].input.limit = DEFAULT_LIMIT
        /\ Response(i).errors.present
        /\ Len(Response(i).errors.v) = 1
        /\ Response(i).errors.v[1].kind = "NoSongsMatchingFilter"
        /\ Response(i).songs = <<>>

\* C27: a search invocation whose date fails resolution (bad format, future,
\* too old, start after end) returns its error response without consulting
\* the rate limiter or the network: the limiter's timestamps are left as they
\* were, not even purged, no verdict is taken and no GET is issued.
C27_InvalidDateSparesLimiter ==
    [][\A i \in DOMAIN inv :
          (/\ inv[i].pc = "idle" /\ inv'[i].pc # "idle"
           /\ inv'[i].tool = "search"
           /\ SchemaValid("search", inv'[i].args)
           /\ FirstFailingCheck(inv'[i].args.date.s, inv'[i].resolvedAt) # "")
          => /\ requests' = requests
             /\ inv'[i].pc = "done"
             /\ inv'[i].verdict = "none"
             /\ inv'[i].gets = 0
             /\ ~inv'[i].result.isError
             /\ inv'[i].result.response.songs = <<>>
             /\ inv'[i].result.response.errors =
                   [present |-> TRUE,
                    v |-> <<[kind |-> FirstFailingCheck(inv'[i].args.date.s,
                                                         inv'[i].resolvedAt),
                             n |-> 0, text |-> <<>>]>>]]_vars

\* C27 witness: with the budget of the window used up, a search for a date
\* that is too old has ended with the date error, not with the rate-limit
\* error, and the ten timestamps are all still there.
C27_Witness ==
    \E i \in DOMAIN inv :
        /\ Finished(i) /\ inv[i].tool = "search"
        /\ SchemaValid("search", inv[i].args)
        /\ FirstFailingCheck(inv[i].args.date.s, inv[i].resolvedAt)
              = "DateTooOld"
        /\ Len(requests) = RATE_LIMIT_MAX_REQUESTS
        /\ \A k \in DOMAIN requests : now - requests[k] < RATE_LIMIT_WINDOW_MS
        /\ inv[i].verdict = "none" /\ inv[i].gets = 0
        /\ Response(i).errors.v[1].kind = "DateTooOld"

\* C28: a slot of the limiter is taken at admission and never given back.
\* With the upstream down every admitted invocation fails (time-out, non-2xx
\* answer, no answer, undecodable body), and still: the step in which its GET
\* fails leaves the stored timestamps as they were, the admissions of the
\* last 60 seconds are all among the stored timestamps, and an invocation is
\* admitted only when fewer than 10 were admitted in the 60 seconds before
\* it, so that the call after 10 failed ones is rate-limited.
C28_SlotNeverRefunded ==
    /\ [](Unexpired(requests, now) = Recent(admitted, now))
    /\ [][\A i \in DOMAIN inv :
             /\ (inv[i].pc = "awaiting" /\ inv'[i].pc = "done") =>
                   /\ ~MakeRequestResult(inv'[i].outcome).ok
                   /\ inv'[i].result.response.errors.present
                   /\ requests' = requests
                   /\ requests' # <<>>
             /\ (inv[i].pc = "idle" /\ inv'[i].verdict = "admitted") =>
                   Len(Recent(admitted, now')) < RATE_LIMIT_MAX_REQUESTS
             /\ (inv[i].pc = "idle" /\ inv'[i].verdict # "none"
                     /\ Len(Recent(admitted, now')) = RATE_LIMIT_MAX_REQUESTS) =>
                   /\ inv'[i].verdict = "rejected"
                   /\ inv'[i].gets = 0]_vars

\* C28 witness: with the upstream down, an invocation has been refused by the
\* limiter, which holds the ten timestamps of the invocations before it, all
\* of the last 60 seconds and all failed.
C28_Witness ==
    \E i \in DOMAIN inv :
        /\ Finished(i) /\ inv[i].verdict = "rejected"
        /\ Len(requests) = RATE_LIMIT_MAX_REQUESTS
        /\ Unexpired(requests, now) = requests
        /\ Recent(admitted, now) = requests
        /\ inv[i].wait > 0

----------------------------------------------------------------------------
(* Claim on queries for the current day                                    *)

====
